---- MODULE Spec2Model ----
(***************************************************************************)
(* Receipt manager: scripts/receipt_db.py (the store, the field extractor, *)
(* the image de-duplicator) and scripts/handler.py (the JSON adapter).     *)
(*                                                                         *)
(* Representation.                                                         *)
(*  - A Python Optional / SQL NULL value is None (the empty tuple); a      *)
(*    present value v is Some(v) (the one-element tuple).                  *)
(*  - A receipt text is a sequence of lines, a line a sequence of tokens   *)
(*    separated by single blanks.  A token is a word, a date-shaped run    *)
(*    of one of the two DATE_PATTERNS families with its three numeric      *)
(*    groups, or an amount with two decimals and an optional currency      *)
(*    symbol.  String primitives TLA+ lacks (lower-casing, substring       *)
(*    search) are tabulated for the words the model uses (Lexicon).        *)
(*  - Amounts (REAL column total, float arguments) are counted in          *)
(*    thousandths, so that an amount with three decimals can be stored.    *)
(***************************************************************************)
EXTENDS Integers, Sequences, FiniteSets, Bags, TLC

VARIABLES
    receipts,   \* the rows of table receipts
    seq,        \* sqlite_sequence of receipts.id (AUTOINCREMENT): the largest id ever given
    files,      \* the file names present in IMG_DIR
    inflight,   \* the add invocations between their SELECT and their INSERT: a bag of their locals
    last,       \* what the last finished command printed and returned
    txt,        \* the argument of normalize_date (date extraction on its own)
    date_out    \* the value normalize_date returned for txt

vars == <<receipts, seq, files, inflight, last, txt, date_out>>

store_vars == <<receipts, seq, files, inflight, last>>

date_vars == <<txt, date_out>>

-----------------------------------------------------------------------------
(* Optional values *)

None == << >>

Some(v) == <<v>>

Val(o) == o[1]

\* Python truthiness of an Optional[str]: None and "" are falsy
Truthy(o) == o # None /\ Val(o) # ""

\* Python truthiness of a text (a sequence of lines): None and the empty text are falsy
TruthyText(o) == o # None /\ Val(o) # << >>

-----------------------------------------------------------------------------
(* Decimal rendering *)

Digit == <<"0", "1", "2", "3", "4", "5", "6", "7", "8", "9">>

Pad2(n) == Digit[((n \div 10) % 10) + 1] \o Digit[(n % 10) + 1]

Pad4(n) == Pad2(n \div 100) \o Pad2(n % 100)

RECURSIVE Dec(_)
Dec(n) == IF n < 10 THEN Digit[n + 1] ELSE Dec(n \div 10) \o Digit[(n % 10) + 1]

-----------------------------------------------------------------------------
(* Tokens of a receipt text *)

W(s) == [k |-> "word", s |-> s, n |-> << >>]

\* a run matched by DATE_PATTERNS[0]: year 20dd, then two groups of one or two digits
Ymd(y, mo, d) == [k |-> "ymd", s |-> "", n |-> <<y, mo, d>>]

\* a run matched by DATE_PATTERNS[1]: two groups of one or two digits, then year 20dd
Mdy(mo, d, y) == [k |-> "mdy", s |-> "", n |-> <<mo, d, y>>]

\* an amount \d+[.,]\d{2} of c cents, prefixed by currency symbol sym ("" for none)
Amt(sym, c) == [k |-> "amt", s |-> sym, n |-> <<c>>]

\* the float of an amount of c cents, in thousandths
Cents(c) == c * 10

RECURSIVE Flatten(_)
Flatten(lines) ==
    IF lines = << >> THEN << >> ELSE Head(lines) \o Flatten(Tail(lines))

\* the tokens of a text in reading order (a line break is white space to the patterns)
Tokens(text) == Flatten(text)

\* the spelling of a token (dates in two-digit groups)
Render(t) ==
    CASE t.k = "word" -> t.s
      [] t.k = "ymd" -> Pad4(t.n[1]) \o "-" \o Pad2(t.n[2]) \o "-" \o Pad2(t.n[3])
      [] t.k = "mdy" -> Pad2(t.n[1]) \o "/" \o Pad2(t.n[2]) \o "/" \o Pad4(t.n[3])
      [] t.k = "amt" -> t.s \o Dec(t.n[1] \div 100) \o "." \o Pad2(t.n[1] % 100)

RECURSIVE RenderLine(_)
RenderLine(line) ==
    IF line = << >> THEN ""
    ELSE IF Len(line) = 1 THEN Render(line[1])
    ELSE Render(line[1]) \o " " \o RenderLine(Tail(line))

-----------------------------------------------------------------------------
(* Calendar: datetime.date(y, mo, d) and date.isoformat() *)

IsLeap(y) == (y % 4 = 0 /\ y % 100 # 0) \/ y % 400 = 0

DaysIn(y, mo) ==
    IF mo = 2 THEN (IF IsLeap(y) THEN 29 ELSE 28)
    ELSE IF mo \in {4, 6, 9, 11} THEN 30 ELSE 31

\* dt.date(y, mo, d) does not raise ValueError
ValidDate(y, mo, d) ==
    /\ y \in 1..9999
    /\ mo \in 1..12
    /\ d \in 1..DaysIn(y, mo)

isoformat(y, mo, d) == Pad4(y) \o "-" \o Pad2(mo) \o "-" \o Pad2(d)

-----------------------------------------------------------------------------
(* normalize_date *)

DATE_PATTERNS == <<"ymd", "mdy">>

\* pat.search(text): the index of the leftmost token of the family, 0 for no match
Search(fam, toks) ==
    LET hits == {i \in 1..Len(toks) : toks[i].k = fam}
    IN  IF hits = {} THEN 0 ELSE CHOOSE i \in hits : \A j \in hits : i <= j

\* the groups of a match as (year, month, day): the first pattern reads y, mo, d,
\* the second mo, d, y (idx counts from 1 here, from 0 in the source)
Groups(idx, t) ==
    IF idx = 1 THEN <<t.n[1], t.n[2], t.n[3]>> ELSE <<t.n[3], t.n[1], t.n[2]>>

RECURSIVE DateLoop(_, _)
DateLoop(idx, toks) ==
    IF idx > Len(DATE_PATTERNS) THEN None
    ELSE LET m == Search(DATE_PATTERNS[idx], toks)
         IN  IF m = 0 THEN DateLoop(idx + 1, toks)
             ELSE LET g == Groups(idx, toks[m])
                  IN  IF ValidDate(g[1], g[2], g[3])
                      THEN Some(isoformat(g[1], g[2], g[3]))
                      ELSE DateLoop(idx + 1, toks)

\* a plausible slip: the except branch returns instead of continuing
RECURSIVE DateLoopStop(_, _)
DateLoopStop(idx, toks) ==
    IF idx > Len(DATE_PATTERNS) THEN None
    ELSE LET m == Search(DATE_PATTERNS[idx], toks)
         IN  IF m = 0 THEN DateLoopStop(idx + 1, toks)
             ELSE LET g == Groups(idx, toks[m])
                  IN  IF ValidDate(g[1], g[2], g[3])
                      THEN Some(isoformat(g[1], g[2], g[3]))
                      ELSE None

normalize_date_stop(text) == DateLoopStop(1, Tokens(text))

normalize_date(text) == DateLoop(1, Tokens(text))

-----------------------------------------------------------------------------
(* String facts of the words the model uses *)

\* for each word, the search patterns of the source (category keywords,
\* boilerplate words, amount labels) that occur in its lower-cased spelling
Lexicon ==
    [w \in {"Costco", "Cafe", "Acme", "Total", "Subtotal", "Walmart", "Milk", "Date", "Taxi"} |->
        CASE w = "Costco" -> {"costco"}
          [] w = "Cafe" -> {"cafe"}
          [] w = "Acme" -> {}
          [] w = "Total" -> {"total"}
          [] w = "Subtotal" -> {"subtotal", "total"}
          [] w = "Walmart" -> {"mart", "walmart"}
          [] w = "Milk" -> {}
          [] w = "Date" -> {"date"}
          [] w = "Taxi" -> {"tax", "taxi"}]

\* the patterns occurring in lower(s); a string outside the lexicon is a rendered
\* line, whose words are looked up one by one
Occurs(s) == IF s \in DOMAIN Lexicon THEN Lexicon[s] ELSE {}

OccursInLine(line) ==
    UNION {Occurs(line[i].s) : i \in {j \in 1..Len(line) : line[j].k = "word"}}

\* the word ends with total|amount|sum (any case), as the first amount pattern
\* needs of the text right before the amount
EndsWithLabel(s) == s \in {"Total", "Subtotal"}

\* str[:n]; a longer string is cut, written here as a marked spelling
Truncate(s, n) == IF Len(s) <= n THEN s ELSE "[:" \o Dec(n) \o "]" \o s

-----------------------------------------------------------------------------
(* parse_total_and_currency *)

AMOUNT_PATTERNS == <<"labelled", "symbol">>

\* the currency symbols, by code point, and the codes they map to
SymbolCurrency ==
    [sym \in {"$", "U+20AC", "U+00A3", "U+00A5"} |->
        CASE sym = "$" -> "USD"
          [] sym = "U+20AC" -> "EUR"
          [] sym = "U+00A3" -> "GBP"
          [] sym = "U+00A5" -> "CNY"]

\* the index of the amount token of the leftmost match of the family, 0 for none:
\* "labelled" is an amount right after a word ending in a label,
\* "symbol" an amount carrying a currency symbol
SearchAmount(fam, toks) ==
    LET hits ==
            IF fam = "labelled"
            THEN {i \in 2..Len(toks) :
                     /\ toks[i].k = "amt"
                     /\ toks[i - 1].k = "word"
                     /\ EndsWithLabel(toks[i - 1].s)}
            ELSE {i \in 1..Len(toks) : toks[i].k = "amt" /\ toks[i].s # ""}
    IN  IF hits = {} THEN 0 ELSE CHOOSE i \in hits : \A j \in hits : i <= j

RECURSIVE AmountLoop(_, _)
AmountLoop(idx, toks) ==
    IF idx > Len(AMOUNT_PATTERNS) THEN [total |-> None, currency |-> None]
    ELSE LET m == SearchAmount(AMOUNT_PATTERNS[idx], toks)
         IN  IF m = 0 THEN AmountLoop(idx + 1, toks)
             ELSE [total |-> Some(Cents(toks[m].n[1])),
                   currency |-> IF toks[m].s \in DOMAIN SymbolCurrency
                                THEN Some(SymbolCurrency[toks[m].s])
                                ELSE None]

parse_total_and_currency(text) == AmountLoop(1, Tokens(text))

-----------------------------------------------------------------------------
(* parse_vendor *)

BOILERPLATE == {"receipt", "invoice", "tax", "total", "date", "thank"}

NonBlank(text) == SelectSeq(text, LAMBDA ln : ln # << >>)

RECURSIVE VendorLoop(_, _)
VendorLoop(i, lines) ==
    IF i > Len(lines) \/ i > 6 THEN Some(Truncate(RenderLine(lines[1]), 48))
    ELSE IF OccursInLine(lines[i]) \cap BOILERPLATE # {} THEN VendorLoop(i + 1, lines)
    ELSE IF Len(RenderLine(lines[i])) >= 2 /\ Len(RenderLine(lines[i])) <= 48
         THEN Some(RenderLine(lines[i]))
         ELSE VendorLoop(i + 1, lines)

parse_vendor(text) ==
    IF NonBlank(text) = << >> THEN None ELSE VendorLoop(1, NonBlank(text))

-----------------------------------------------------------------------------
(* auto_category *)

CATEGORIES == <<
    [cat |-> "grocery", kws |-> {"supermarket", "grocery", "freshco", "whole foods", "costco", "market", "mart", "trader joe", "save on"}],
    [cat |-> "dining", kws |-> {"restaurant", "cafe", "coffee", "tea", "diner", "pizza", "burger", "sushi", "bbq", "kitchen"}],
    [cat |-> "transport", kws |-> {"uber", "lyft", "taxi", "gas", "fuel", "petro", "shell", "chevron", "parking", "transit"}],
    [cat |-> "health", kws |-> {"pharmacy", "drug", "clinic", "hospital", "dental", "health", "medicine"}],
    [cat |-> "shopping", kws |-> {"amazon", "walmart", "target", "store", "shop", "mall", "ikea", "best buy"}],
    [cat |-> "travel", kws |-> {"hotel", "airbnb", "airlines", "flight", "booking", "expedia"}],
    [cat |-> "utilities", kws |-> {"hydro", "electric", "internet", "phone", "water", "utility", "telus", "rogers", "bell"}] >>

RECURSIVE CategoryLoop(_, _)
CategoryLoop(i, blob) ==
    IF i > Len(CATEGORIES) THEN "other"
    ELSE IF CATEGORIES[i].kws \cap blob # {} THEN CATEGORIES[i].cat
    ELSE CategoryLoop(i + 1, blob)

\* blob = f"{vendor or ''} {text}".lower(), as the set of patterns occurring in it
auto_category(vendor, text) ==
    CategoryLoop(1, (IF vendor = None THEN {} ELSE Occurs(Val(vendor)))
                    \cup UNION {OccursInLine(text[i]) : i \in 1..Len(text)})

-----------------------------------------------------------------------------
(* parse_items *)

ITEM_SKIP == {"total", "subtotal", "tax", "amount", "sum"}

\* one line: a name followed by a closing amount, unless the name is a summary word
ItemOf(line) ==
    LET n == Len(line)
        name == SubSeq(line, 1, n - 1)
    IN  IF /\ n >= 2
           /\ Len(RenderLine(line)) >= 3
           /\ line[n].k = "amt"
           /\ OccursInLine(name) \cap ITEM_SKIP = {}
        THEN << [name |-> Truncate(RenderLine(name), 120),
                 price |-> Cents(line[n].n[1]),
                 currency |-> IF line[n].s \in DOMAIN SymbolCurrency
                              THEN Some(SymbolCurrency[line[n].s])
                              ELSE None] >>
        ELSE << >>

RECURSIVE parse_items(_)
parse_items(text) ==
    IF text = << >> THEN << >> ELSE ItemOf(Head(text)) \o parse_items(Tail(text))

-----------------------------------------------------------------------------
(* JSON texts: a valid text stands for the value it encodes *)

json_dumps(v) == [ok |-> TRUE, v |-> v]

BadJson == [ok |-> FALSE, v |-> << >>]

\* json.loads raises on BadJson
JsonValid(j) == j.ok

json_loads(j) == j.v

-----------------------------------------------------------------------------
(* Bounds and input sets *)

\* the number of rows ever inserted
MaxId == 2

\* the add invocations that may be in flight at the same time
MaxInflight == 2

\* the readings of the UTC clock an INSERT may take
Times == {"2026-02-26T10:00:00Z"}

Ids == 1..MaxId

\* what a finished command leaves behind: its exit code and what it printed
Out(cmd, code, status, id, image, row) ==
    [cmd |-> cmd, code |-> code, status |-> status, id |-> id, image |-> image, row |-> row]

NoOut == Out("", 0, "", 0, "", None)

-----------------------------------------------------------------------------
(* Image storage: sha256_file, copy_image_dedup *)

IMG_DIR == "data/receipts/images/"

\* hashlib.sha256 of the file's bytes, taken to be free of collisions
sha256_file(src) ==
    CASE src.bytes = "c1" -> "h1"
      [] src.bytes = "c2" -> "h2"

\* str.lower() on the suffixes the model uses
LowerSuffix(sfx) == IF sfx = ".PNG" THEN ".png" ELSE sfx

\* a plausible slip: no copy when the content is stored under any extension
copy_image_dedup_by_digest(src, fs) ==
    LET ext == IF LowerSuffix(src.suffix) = "" THEN ".jpg" ELSE LowerSuffix(src.suffix)
        digest == sha256_file(src)
        dst == IMG_DIR \o digest \o ext
    IN  [rel |-> dst, digest |-> digest,
         files |-> IF \E e \in {".jpg", ".png"} : IMG_DIR \o digest \o e \in fs
                   THEN fs ELSE fs \cup {dst}]

\* dst = IMG_DIR / f"{digest}{ext}" and the storage after the copy
copy_image_dedup(src, fs) ==
    LET ext == IF LowerSuffix(src.suffix) = "" THEN ".jpg" ELSE LowerSuffix(src.suffix)
        digest == sha256_file(src)
        dst == IMG_DIR \o digest \o ext
    IN  [rel |-> dst, digest |-> digest,
         files |-> IF dst \in fs THEN fs ELSE fs \cup {dst}]

-----------------------------------------------------------------------------
(* Table receipts *)

\* SELECT ... WHERE id = ?
RowsById(rows, id) == {r \in rows : r.id = id}

\* a plausible slip: the lookup compares the wrong column
RowsByPath(rows, digest) == {r \in rows : r.image_path = digest}

\* SELECT id FROM receipts WHERE image_sha256 = ?
RowsBySha(rows, digest) == {r \in rows : r.image_sha256 = digest}

\* a plausible slip: the column is declared without UNIQUE
NoUniqueConstraint(rows, digest) == FALSE

\* image_sha256 TEXT NOT NULL UNIQUE: the INSERT raises sqlite3.IntegrityError
UniqueViolation(rows, digest) == \E r \in rows : r.image_sha256 = digest

\* str.upper() on the currency spellings the model uses
Upper(c) == IF c = "cad" THEN "CAD" ELSE c

\* add_receipt, lines 234-266: the columns of the row to insert, from the
\* arguments a and the text ocr the local OCR binary returns (None for none)
MergeFields(a, ocr) ==
    LET given == IF TruthyText(a.text) THEN a.text ELSE None
        ocr_text == IF given = None THEN ocr ELSE given
        ocr_engine == IF given = None /\ ocr # None THEN Some("tesseract") ELSE None
        text_for_parse == IF TruthyText(ocr_text) THEN Val(ocr_text) ELSE << >>
        vendor == IF Truthy(a.vendor) THEN a.vendor ELSE parse_vendor(text_for_parse)
        receipt_date == IF Truthy(a.date) THEN a.date ELSE normalize_date(text_for_parse)
        parsed == IF a.total # None
                  THEN [total |-> a.total, currency |-> None]
                  ELSE parse_total_and_currency(text_for_parse)
        currency == IF Truthy(a.currency) THEN Some(Upper(Val(a.currency)))
                    ELSE parsed.currency
        category == IF Truthy(a.category) THEN Val(a.category)
                    ELSE auto_category(vendor, text_for_parse)
        parsed_items == IF a.items_json # None
                        THEN (IF JsonValid(Val(a.items_json))
                              THEN json_loads(Val(a.items_json)) ELSE << >>)
                        ELSE IF text_for_parse # << >> THEN parse_items(text_for_parse)
                        ELSE << >>
    IN  [vendor |-> vendor,
         receipt_date |-> receipt_date,
         currency |-> currency,
         total |-> parsed.total,
         category |-> Some(category),
         ocr_text |-> ocr_text,
         items_json |-> Some(json_dumps(parsed_items)),
         meta_json |-> [ocr_engine |-> ocr_engine,
                        ocr_available |-> TruthyText(ocr_text),
                        source_image |-> Val(a.image).path]]

\* the row the INSERT of add_receipt writes
NewRow(id, created_at, f, rel, digest) ==
    [id |-> id, created_at |-> created_at,
     vendor |-> f.vendor, receipt_date |-> f.receipt_date, currency |-> f.currency,
     total |-> f.total, category |-> f.category,
     image_path |-> rel, image_sha256 |-> digest,
     ocr_text |-> f.ocr_text, items_json |-> f.items_json, meta_json |-> f.meta_json]

-----------------------------------------------------------------------------
(* show, update, delete *)

show_receipt(rows, id) ==
    IF RowsById(rows, id) = {} THEN Out("show", 1, "Not found", id, "", None)
    ELSE Out("show", 0, "ok", id, "", Some(CHOOSE r \in RowsById(rows, id) : TRUE))

\* the updates dict of update_receipt: the columns to set and their values
Updates(u) ==
    [c \in {"vendor"} \cap (IF u.vendor # None THEN {"vendor"} ELSE {}) |-> u.vendor]
    @@ [c \in {"receipt_date"} \cap (IF u.date # None THEN {"receipt_date"} ELSE {}) |-> u.date]
    @@ [c \in {"total"} \cap (IF u.total # None THEN {"total"} ELSE {}) |-> u.total]
    @@ [c \in {"currency"} \cap (IF u.currency # None THEN {"currency"} ELSE {}) |->
            IF Truthy(u.currency) THEN Some(Upper(Val(u.currency))) ELSE None]
    @@ [c \in {"category"} \cap (IF u.category # None THEN {"category"} ELSE {}) |-> u.category]
    @@ [c \in {"ocr_text"} \cap (IF u.text # None THEN {"ocr_text"} ELSE {}) |-> u.text]
    @@ [c \in {"items_json"} \cap (IF u.items_json # None THEN {"items_json"} ELSE {}) |-> u.items_json]

\* UPDATE receipts SET cols WHERE id = ?
SetCols(r, upd) ==
    [c \in DOMAIN r |-> IF c \in DOMAIN upd THEN upd[c] ELSE r[c]]

\* a plausible slip: the UPDATE has no WHERE clause
update_receipt_all_rows(rows, id, u) ==
    IF u.items_json # None /\ ~JsonValid(Val(u.items_json))
    THEN [rows |-> rows, out |-> Out("update", 2, "--items-json must be valid JSON array", id, "", None)]
    ELSE IF DOMAIN Updates(u) = {}
    THEN [rows |-> rows, out |-> Out("update", 2, "No fields to update", id, "", None)]
    ELSE IF RowsById(rows, id) = {}
    THEN [rows |-> rows, out |-> Out("update", 1, "Not found", id, "", None)]
    ELSE [rows |-> {SetCols(r, Updates(u)) : r \in rows},
          out |-> Out("update", 0, "ok", id, "", None)]

update_receipt(rows, id, u) ==
    IF u.items_json # None /\ ~JsonValid(Val(u.items_json))
    THEN [rows |-> rows, out |-> Out("update", 2, "--items-json must be valid JSON array", id, "", None)]
    ELSE IF DOMAIN Updates(u) = {}
    THEN [rows |-> rows, out |-> Out("update", 2, "No fields to update", id, "", None)]
    ELSE IF RowsById(rows, id) = {}
    THEN [rows |-> rows, out |-> Out("update", 1, "Not found", id, "", None)]
    ELSE [rows |-> {IF r.id = id THEN SetCols(r, Updates(u)) ELSE r : r \in rows},
          out |-> Out("update", 0, "ok", id, "", None)]

\* a plausible slip: the confirmation flag is not looked at
delete_receipt_unconfirmed(rows, fs, id, yes, delete_image) ==
    IF RowsById(rows, id) = {}
    THEN [rows |-> rows, files |-> fs, out |-> Out("delete", 1, "Not found", id, "", None)]
    ELSE LET row == CHOOSE r \in RowsById(rows, id) : TRUE
         IN  [rows |-> rows \ RowsById(rows, id),
              files |-> IF delete_image /\ row.image_path # "" THEN fs \ {row.image_path} ELSE fs,
              out |-> Out("delete", 0, "ok", id, "", None)]

\* a plausible slip: the confirmation flag is looked at before the row is looked up
delete_receipt_confirm_first(rows, fs, id, yes, delete_image) ==
    IF ~yes
    THEN [rows |-> rows, files |-> fs, out |-> Out("delete", 2, "confirm_required", id, "", None)]
    ELSE IF RowsById(rows, id) = {}
    THEN [rows |-> rows, files |-> fs, out |-> Out("delete", 1, "Not found", id, "", None)]
    ELSE LET row == CHOOSE r \in RowsById(rows, id) : TRUE
         IN  [rows |-> rows \ RowsById(rows, id),
              files |-> IF delete_image /\ row.image_path # "" THEN fs \ {row.image_path} ELSE fs,
              out |-> Out("delete", 0, "ok", id, "", None)]

delete_receipt(rows, fs, id, yes, delete_image) ==
    IF RowsById(rows, id) = {}
    THEN [rows |-> rows, files |-> fs, out |-> Out("delete", 1, "Not found", id, "", None)]
    ELSE IF ~yes
    THEN [rows |-> rows, files |-> fs, out |-> Out("delete", 2, "confirm_required", id, "", None)]
    ELSE LET row == CHOOSE r \in RowsById(rows, id) : TRUE
         IN  [rows |-> rows \ RowsById(rows, id),
              files |-> IF delete_image /\ row.image_path # "" THEN fs \ {row.image_path} ELSE fs,
              out |-> Out("delete", 0, "ok", id, "", None)]

-----------------------------------------------------------------------------
(* summary *)

\* the month keys re.match(r"^20\d{2}-\d{2}$", month) accepts
MonthOk == {"20" \o Pad2(y) \o "-" \o Pad2(mo) : y \in 0..99, mo \in 0..99}

\* WHERE receipt_date LIKE "<month>-%", without the WHERE
LikeAnyDate(date, month) == date # None

\* the month keys summary is run on
MonthKeys == {"2026-02", "2026-13", "1999-01", "2026-2"}

\* the strings that begin with a key and a dash, among the dates of the model
\* (every one of them goes on with two digits)
LikePattern == [month \in MonthKeys |-> {month \o "-" \o Pad2(d) : d \in 0..99}]

\* WHERE receipt_date LIKE "<month>-%"
LikeMonth(date, month) == date # None /\ Val(date) \in LikePattern[month]

\* SQL SUM(total) under COALESCE(., 0): NULL totals are skipped
RECURSIVE SumTotal(_)
SumTotal(rows) ==
    IF rows = {} THEN 0
    ELSE LET r == CHOOSE x \in rows : TRUE
         IN  (IF r.total = None THEN 0 ELSE Val(r.total)) + SumTotal(rows \ {r})

\* SQL ROUND(x, 2) of x thousandths: to the nearest cent, a half away from zero
Round2(x) ==
    LET a == IF x < 0 THEN -x ELSE x
        r == ((a + 5) \div 10) * 10
    IN  IF x < 0 THEN -r ELSE r

CategoryKey(r) == r.category

\* COALESCE(vendor, 'Unknown')
VendorKey(r) == IF r.vendor = None THEN Some("Unknown") ELSE r.vendor

\* the expression the query groups by
GroupKey(r, by) == IF by = "vendor" THEN VendorKey(r) ELSE CategoryKey(r)

\* SELECT key, COUNT(*), ROUND(COALESCE(SUM(total),0),2) ... GROUP BY key
Aggregate(sel, by) ==
    { [key |-> k,
       count |-> Cardinality({r \in sel : GroupKey(r, by) = k}),
       total |-> Round2(SumTotal({r \in sel : GroupKey(r, by) = k}))] :
      k \in {GroupKey(r, by) : r \in sel} }

\* ORDER BY total DESC: the orders SQL may return the groups in (groups of
\* equal total come in either order)
OrderByTotalDesc(groups) ==
    LET n == Cardinality(groups)
    IN  { q \in [1..n -> groups] :
            /\ \A i, j \in 1..n : i # j => q[i] # q[j]
            /\ \A i \in 1..n : \A j \in 1..n : i < j => q[i].total >= q[j].total }

\* LIMIT n
Limit(q, n) == IF Len(q) <= n THEN q ELSE SubSeq(q, 1, n)

\* summary: what it may print for --month and --vendor-limit when the local
\* date is in month today
summary(rows, month, vendor_limit, today) ==
    LET m == IF Truthy(month) THEN Val(month) ELSE today
        sel == {r \in rows : LikeMonth(r.receipt_date, m)}
    IN  IF m \notin MonthOk
        THEN {Out("summary", 2, "month must be YYYY-MM", 0, "", None)}
        ELSE { Out("summary", 0, m, 0, "",
                   Some([by_category |-> c, by_vendor |-> Limit(v, vendor_limit)])) :
               c \in OrderByTotalDesc(Aggregate(sel, "category")),
               v \in OrderByTotalDesc(Aggregate(sel, "vendor")) }

-----------------------------------------------------------------------------
(* handler.py *)

\* sanitize_string on a string: the shell metacharacters ;&|`$<> are removed,
\* then the string is cut to max_len
sanitize_string(s, max_len) ==
    Truncate(CASE s = "A&W" -> "AW"
               [] s = "$" -> ""
               [] OTHER -> s, max_len)

\* sanitize_string on a text: an amount loses its "$"
SanitizeLine(line) ==
    [i \in 1..Len(line) |->
        IF line[i].k = "amt" /\ line[i].s = "$" THEN Amt("", line[i].n[1]) ELSE line[i]]

SanitizeText(text) == [i \in 1..Len(text) |-> SanitizeLine(text[i])]

\* validate_path: only [\w\-./], and no "..", else ''
validate_path(img) == img # None /\ Val(img).plain /\ Val(img).state # "dotdot"

HANDLER_MAX_TOTAL == 1000000

\* handle(data) up to the subprocess call: the error it returns, or the
\* arguments it passes to "receipt_db.py add"
handle(data) ==
    IF data.vendor = None THEN [error |-> "missing vendor", args |-> None]
    ELSE IF data.total = None THEN [error |-> "missing total", args |-> None]
    ELSE IF sanitize_string(Val(data.vendor), 100) = ""
    THEN [error |-> "invalid vendor", args |-> None]
    ELSE IF ~data.total_is_number THEN [error |-> "total must be a number", args |-> None]
    ELSE IF Val(data.total) < 0 \/ Val(data.total) > Cents(HANDLER_MAX_TOTAL * 100)
    THEN [error |-> "invalid total amount", args |-> None]
    ELSE LET date == sanitize_string(IF data.date = None THEN "" ELSE Val(data.date), 20)
             currency == sanitize_string(IF data.currency = None THEN "CAD" ELSE Val(data.currency), 10)
             category == sanitize_string(IF data.category = None THEN "other" ELSE Val(data.category), 50)
             text == IF data.text = None THEN << >> ELSE SanitizeText(Val(data.text))
         IN  [error |-> "",
              args |-> Some([image |-> IF validate_path(data.image) THEN data.image ELSE None,
                             text |-> IF text # << >> THEN Some(text) ELSE None,
                             vendor |-> Some(sanitize_string(Val(data.vendor), 100)),
                             date |-> IF date # "" THEN Some(date) ELSE None,
                             total |-> data.total,
                             currency |-> IF currency # "" THEN Some(currency) ELSE None,
                             category |-> IF category # "" THEN Some(category) ELSE None,
                             items_json |-> None])]

\* what the handler prints for the exit code of the subprocess
HandlerOut(out) ==
    Out("handle", 0, IF out.code = 0 THEN "ok" ELSE "error", out.id, out.image, None)

Report(via, out) == IF via = "handler" THEN HandlerOut(out) ELSE out

-----------------------------------------------------------------------------
(* The inputs the commands are run on *)

Img(path, suffix, bytes, state, plain) ==
    [path |-> path, suffix |-> suffix, bytes |-> bytes, state |-> state, plain |-> plain]

\* two files of the same bytes under different names and extensions, one of other
\* bytes without extension, one outside the home directory, one that does not exist
ImgJpg == Img("/home/u/r.jpg", ".jpg", "c1", "ok", TRUE)

ImgPng == Img("/home/u/scan 1.PNG", ".PNG", "c1", "ok", FALSE)

ImgNoExt == Img("/home/u/receipt", "", "c2", "ok", TRUE)

ImgOutside == Img("/tmp/r.jpg", ".jpg", "c2", "outside", TRUE)

ImgMissing == Img("/home/u/gone.jpg", ".jpg", "", "missing", TRUE)

TextA ==
    << <<W("Costco")>>,
       <<W("Milk"), Amt("", 199)>>,
       <<W("Total"), Amt("$", 247)>>,
       <<Ymd(2026, 2, 26)>> >>

\* a total above the handler's limit and an impossible date
TextB ==
    << <<W("Cafe")>>,
       <<W("Total"), Amt("", HANDLER_MAX_TOTAL * 100 + 1)>>,
       <<Mdy(2, 30, 2026)>> >>

Fields(text, vendor, date, total, currency, category, items_json) ==
    [text |-> text, vendor |-> vendor, date |-> date, total |-> total,
     currency |-> currency, category |-> category, items_json |-> items_json]

NoFields == Fields(None, None, None, None, None, None, None)

\* the runs of "add": the image, the other flags, and what the local OCR binary
\* returns for the image when it is asked (None: no binary, or no text)
AddInputs ==
    { <<ImgJpg, Fields(Some(TextA), None, None, None, None, None, None), None>>,
      <<ImgPng, Fields(Some(TextA), None, None, Some(Cents(500)), None, None, None), None>>,
      <<ImgJpg, Fields(None, Some("Acme"), Some("2026-02-30"), Some(Cents(-100)), Some("cad"),
                       Some("dining"), Some(json_dumps(<< >>))), None>>,
      <<ImgNoExt, NoFields, None>>,
      <<ImgNoExt, NoFields, Some(TextB)>>,
      <<ImgOutside, NoFields, None>>,
      <<ImgMissing, NoFields, None>> }

\* the runs of "update": the flags besides --id
UpdateFields ==
    { NoFields,
      Fields(None, None, None, None, None, None, Some(BadJson)),
      \* --total 1000000.004 --date 2026-02-03 --category grocery
      Fields(None, None, Some("2026-02-03"), Some(Cents(HANDLER_MAX_TOTAL * 100) + 4), None,
             Some("grocery"), None),
      Fields(Some(TextB), Some("Walmart"), Some("garbage"), None, Some(""), None,
             Some(json_dumps(<< >>))) }

\* the runs of "summary": --month (None: not given) and --vendor-limit
Months == {None} \cup {Some(m) : m \in MonthKeys}

VendorLimits == {1, 10}

\* the month of the local date, dt.date.today().strftime("%Y-%m")
TodayMonths == {"2026-02"}

Data(vendor, total, total_is_number, date, currency, category, text) ==
    [vendor |-> vendor, total |-> total, total_is_number |-> total_is_number,
     date |-> date, currency |-> currency, category |-> category,
     image |-> None, text |-> text]

\* the runs of the handler: the "image" of the JSON object, its other keys, and
\* what the local OCR binary returns
HandlerInputs ==
    { <<Some(ImgJpg), Data(None, Some(Cents(500)), TRUE, None, None, None, None), None>>,
      <<Some(ImgJpg), Data(Some("$"), Some(Cents(500)), TRUE, None, None, None, None), None>>,
      <<Some(ImgJpg), Data(Some("Acme"), Some(0), FALSE, None, None, None, None), None>>,
      <<Some(ImgJpg), Data(Some("Acme"), Some(Cents(-1)), TRUE, None, None, None, None), None>>,
      <<Some(ImgJpg), Data(Some("Acme"), Some(Cents(HANDLER_MAX_TOTAL * 100 + 1)), TRUE, None, None, None, None), None>>,
      <<None, Data(Some("Acme"), Some(Cents(500)), TRUE, None, None, None, None), None>>,
      <<Some(ImgPng), Data(Some("Acme"), Some(Cents(500)), TRUE, None, None, None, None), None>>,
      <<Some(ImgNoExt), Data(Some("A&W"), Some(Cents(HANDLER_MAX_TOTAL * 100)), TRUE, Some("2026-13-40"),
                             None, None, Some(TextA)), None>> }

-----------------------------------------------------------------------------
(* The commands as steps *)

Init ==
    /\ receipts = {}
    /\ seq = 0
    /\ files = {}
    /\ inflight = EmptyBag
    /\ last = NoOut
    /\ txt = << >>
    /\ date_out = [done |-> FALSE, value |-> None]

\* add_receipt from its start to the SELECT of line 269 (and to its end when the
\* path is refused or the content is already stored)
AddStart(via, a, ocr) ==
    /\ BagCardinality(inflight) < MaxInflight
    /\ IF a.image = None
       THEN /\ last' = Report(via, Out("add", 2, "the following arguments are required: --image", 0, "", None))
            /\ UNCHANGED <<receipts, seq, files, inflight>>
       ELSE IF Val(a.image).state # "ok"
       THEN /\ last' = Report(via, Out("add", 2, "ERROR: " \o Val(a.image).state, 0, "", None))
            /\ UNCHANGED <<receipts, seq, files, inflight>>
       ELSE LET src == Val(a.image)
                cp == copy_image_dedup(src, files)
                found == RowsBySha(receipts, cp.digest)
            IN  /\ files' = cp.files
                /\ IF found # {}
                   THEN /\ last' = Report(via, Out("add", 0, "duplicate",
                                                  (CHOOSE r \in found : TRUE).id, cp.rel, None))
                        /\ UNCHANGED <<receipts, seq, inflight>>
                   ELSE /\ seq + BagCardinality(inflight) < MaxId
                        /\ inflight' = inflight (+) SetToBag({[via |-> via, a |-> a, ocr |-> ocr,
                                                                    rel |-> cp.rel, digest |-> cp.digest]})
                        /\ UNCHANGED <<receipts, seq, last>>

\* the argparse namespace of one run of "add"
AddArgs(in) ==
    [image |-> Some(in[1]), text |-> in[2].text, vendor |-> in[2].vendor,
     date |-> in[2].date, total |-> in[2].total, currency |-> in[2].currency,
     category |-> in[2].category, items_json |-> in[2].items_json]

\* "receipt_db.py add" from the command line
Add ==
    \E in \in AddInputs :
        /\ AddStart("cli", AddArgs(in), in[3])
        /\ UNCHANGED date_vars

\* handler.py on one JSON object
Handle ==
    \E in \in HandlerInputs :
        /\ LET h == handle([in[2] EXCEPT !.image = in[1]])
           IN  IF h.error # ""
               THEN /\ last' = Out("handle", 0, h.error, 0, "", None)
                    /\ UNCHANGED <<receipts, seq, files, inflight>>
               ELSE AddStart("handler", Val(h.args), in[3])
        /\ UNCHANGED date_vars

\* the INSERT of add_receipt and what follows it
AddInsert ==
    \E loc \in BagToSet(inflight), t \in Times :
        /\ IF UniqueViolation(receipts, loc.digest)
           THEN /\ last' = Report(loc.via, Out("add", 1, "sqlite3.IntegrityError", 0, "", None))
                /\ UNCHANGED <<receipts, seq>>
           ELSE /\ receipts' = receipts \cup {NewRow(seq + 1, t, MergeFields(loc.a, loc.ocr), loc.rel, loc.digest)}
                /\ seq' = seq + 1
                /\ last' = Report(loc.via, Out("add", 0, "ok", seq + 1, loc.rel, None))
        /\ inflight' = inflight (-) SetToBag({loc})
        /\ UNCHANGED <<files, txt, date_out>>

ShowCmd(id) ==
    /\ last' = show_receipt(receipts, id)
    /\ UNCHANGED <<receipts, seq, files, inflight, txt, date_out>>

Show == \E id \in Ids : ShowCmd(id)

UpdateCmd(id, u) ==
    LET res == update_receipt(receipts, id, u)
    IN  /\ receipts' = res.rows
        /\ last' = res.out
        /\ UNCHANGED <<seq, files, inflight, txt, date_out>>

Update == \E id \in Ids, u \in UpdateFields : UpdateCmd(id, u)

DeleteCmd(id, yes, delete_image) ==
    LET res == delete_receipt(receipts, files, id, yes, delete_image)
    IN  /\ receipts' = res.rows
        /\ files' = res.files
        /\ last' = res.out
        /\ UNCHANGED <<seq, inflight, txt, date_out>>

Delete == \E id \in Ids, yes \in BOOLEAN, delete_image \in BOOLEAN : DeleteCmd(id, yes, delete_image)

SummaryCmd(month, vendor_limit, today) ==
    /\ last' \in summary(receipts, month, vendor_limit, today)
    /\ UNCHANGED <<receipts, seq, files, inflight, txt, date_out>>

Summary ==
    \E month \in Months, vendor_limit \in VendorLimits, today \in TodayMonths :
        SummaryCmd(month, vendor_limit, today)

Next ==
    \/ Add
    \/ Handle
    \/ AddInsert
    \/ Show
    \/ Update
    \/ Delete
    \/ Summary

Spec == Init /\ [][Next]_vars

-----------------------------------------------------------------------------
(* The commands run one after the other: a command starts only when no add  *)
(* is between its SELECT and its INSERT                                     *)

SeqAdd == inflight = EmptyBag /\ Add

SeqHandle == inflight = EmptyBag /\ Handle

SeqShow == inflight = EmptyBag /\ Show

SeqUpdate == inflight = EmptyBag /\ Update

SeqDelete == inflight = EmptyBag /\ Delete

SeqSummary == inflight = EmptyBag /\ Summary

NextSeq ==
    \/ SeqAdd
    \/ SeqHandle
    \/ AddInsert
    \/ SeqShow
    \/ SeqUpdate
    \/ SeqDelete
    \/ SeqSummary

SpecSeq == Init /\ [][NextSeq]_vars

-----------------------------------------------------------------------------
(* Date extraction on its own: normalize_date on every short text *)

\* the number of tokens of a text
MaxTokens == 3

DateTokens ==
    { W("Date"),
      Ymd(2026, 2, 26), Ymd(2024, 2, 29), Ymd(2026, 13, 40),
      Mdy(3, 1, 2026), Mdy(2, 30, 2026) }

RECURSIVE TokenSeqs(_)
TokenSeqs(n) ==
    IF n = 0 THEN {<< >>}
    ELSE TokenSeqs(n - 1) \cup {Append(q, t) : q \in {x \in TokenSeqs(n - 1) : Len(x) = n - 1}, t \in DateTokens}

InitDate ==
    /\ receipts = {}
    /\ seq = 0
    /\ files = {}
    /\ inflight = EmptyBag
    /\ last = NoOut
    /\ txt \in {<<line>> : line \in TokenSeqs(MaxTokens)}
    /\ date_out = [done |-> FALSE, value |-> None]

NormalizeDate ==
    /\ ~date_out.done
    /\ date_out' = [done |-> TRUE, value |-> normalize_date(txt)]
    /\ UNCHANGED <<store_vars, txt>>

NextDate == NormalizeDate

SpecDate == InitDate /\ [][NextDate]_vars

-----------------------------------------------------------------------------
(* Properties of the store *)

\* C1: in every reachable state no two rows of receipts have the same
\* image_sha256.
C1_HashUnique ==
    \A r1 \in receipts, r2 \in receipts :
        r1.image_sha256 = r2.image_sha256 => r1 = r2

\* an add lost the race for its content: its INSERT was refused while the
\* winner's row is stored
C1_RefusedInsertReached ==
    /\ last.cmd = "add"
    /\ last.status = "sqlite3.IntegrityError"
    /\ receipts # {}

\* C2: an add of an image whose bytes a stored row already holds prints
\* status duplicate with the id of that row and exit code 0, and leaves the
\* rows, the id sequence and the adds in flight as they were, whatever file
\* name, text and flags it is given.
C2_DuplicateAddIsNoOp ==
    [][\A in \in AddInputs :
          (/\ in[1].state = "ok"
           /\ \E r \in receipts : r.image_sha256 = sha256_file(in[1])
           /\ AddStart("cli", AddArgs(in), in[3]))
          => /\ last'.cmd = "add"
             /\ last'.status = "duplicate"
             /\ last'.code = 0
             /\ \E r \in receipts : r.image_sha256 = sha256_file(in[1]) /\ r.id = last'.id
             /\ UNCHANGED <<receipts, seq, inflight>>]_vars

\* a duplicate was reported for a file stored under another name than the
\* row's, while the row keeps the fields of the first add
C2_DuplicateReached ==
    /\ last.cmd = "add"
    /\ last.status = "duplicate"
    /\ \E r \in receipts :
          /\ r.id = last.id
          /\ r.image_path # last.image
          /\ r.total = Some(Cents(247))

\* C3: when an add reaches its INSERT while a row of its image content is
\* already stored (the other invocation won the race), no row is added and
\* the add ends with status duplicate, the id of the stored row and exit code
\* 0, not with an uncaught failure.
C3_RaceLoserReportsDuplicate ==
    [][\A loc \in BagToSet(inflight) :
          (/\ loc.via = "cli"
           /\ \E r \in receipts : r.image_sha256 = loc.digest
           /\ inflight' = inflight (-) SetToBag({loc}))
          => /\ receipts' = receipts
             /\ last'.cmd = "add"
             /\ last'.status = "duplicate"
             /\ last'.code = 0
             /\ \E r \in receipts : r.image_sha256 = loc.digest /\ r.id = last'.id]_vars

\* C4: for the id of a stored row, delete without --yes prints
\* confirm_required with exit code 2 and changes neither the rows nor the
\* stored image files, so show of that id then returns the row; delete with
\* --yes removes the row, so show of that id then reports not found.
C4_DeleteNeedsConfirmation ==
    [][\A id \in Ids, delete_image \in BOOLEAN :
          (\E r \in receipts : r.id = id)
          => /\ DeleteCmd(id, FALSE, delete_image)
                => /\ last'.status = "confirm_required"
                   /\ last'.code = 2
                   /\ UNCHANGED <<receipts, files>>
                   /\ show_receipt(receipts', id).code = 0
                   /\ show_receipt(receipts', id).row = show_receipt(receipts, id).row
             /\ DeleteCmd(id, TRUE, delete_image)
                => /\ last'.status = "ok"
                   /\ last'.code = 0
                   /\ show_receipt(receipts', id).code = 1]_vars

\* delete without --yes was refused for a row that is stored
C4_ConfirmRequiredReached ==
    /\ last.cmd = "delete"
    /\ last.status = "confirm_required"
    /\ \E r \in receipts : r.id = last.id

\* C5: in every reachable state the total of every row is NULL or within
\* [0, 1000000].
C5_TotalInRange ==
    \A r \in receipts :
        r.total = None \/ (Val(r.total) >= 0 /\ Val(r.total) <= Cents(HANDLER_MAX_TOTAL * 100))

\* the years the date patterns admit (20dd)
Years == 2000..2099

IsoDates ==
    {isoformat(y, mo, d) : <<y, mo, d>> \in {c \in Years \X (1..12) \X (1..31) : ValidDate(c[1], c[2], c[3])}}

\* C6: in every reachable state the receipt_date of every row is NULL or the
\* YYYY-MM-DD spelling of a calendar date.
C6_DateValid ==
    \A r \in receipts : r.receipt_date = None \/ Val(r.receipt_date) \in IsoDates

\* the stored paths copy_image_dedup can give to a digest
StoredPaths(digest) == {IMG_DIR \o digest \o ext : ext \in {".jpg", ".png"}}

\* C7: files of the same bytes get the same stored path whatever their names
\* and extensions, and a later call copies nothing: image storage holds at
\* most one file per digest, and a duplicate add returns the path the first
\* add of these bytes returned (the row's image_path).
C7_OnePathPerContent ==
    /\ \A digest \in {"h1", "h2"} : Cardinality(files \cap StoredPaths(digest)) <= 1
    /\ (last.cmd = "add" /\ last.status = "duplicate")
       => \A r \in receipts : r.id = last.id => r.image_path = last.image

\* C8: when add inserts a row, each of vendor, date, total, currency and
\* category that was given as a flag is stored as given, and each that was
\* not given is stored as the extractor's result on the receipt text (for
\* currency also when --total was given).  Currency codes are compared in
\* upper case, the spelling add stores them in.
C8_GivenElseExtracted ==
    [][\A loc \in BagToSet(inflight) :
          (inflight' = inflight (-) SetToBag({loc}))
          => \A r \in receipts' \ receipts :
                LET a == loc.a
                    text == IF r.ocr_text = None THEN << >> ELSE Val(r.ocr_text)
                IN  /\ r.vendor = IF a.vendor # None THEN a.vendor ELSE parse_vendor(text)
                    /\ r.receipt_date = IF a.date # None THEN a.date ELSE normalize_date(text)
                    /\ r.total = IF a.total # None THEN a.total
                                 ELSE parse_total_and_currency(text).total
                    /\ r.currency = IF a.currency # None THEN Some(Upper(Val(a.currency)))
                                    ELSE parse_total_and_currency(text).currency
                    /\ r.category = IF a.category # None THEN a.category
                                    ELSE Some(auto_category(r.vendor, text))]_vars

\* update with at least one valid field: some flag is given and --items-json,
\* when given, is valid JSON
HasValidField(u) ==
    /\ \E c \in {"vendor", "date", "total", "currency", "category", "text", "items_json"} : u[c] # None
    /\ u.items_json # None => Val(u.items_json).ok

\* C9: for an id no stored row has, show, update (with at least one valid
\* field) and delete (with or without --yes) report not found with exit code
\* 1 and change neither the rows nor the stored image files.
C9_UnknownIdNotFound ==
    [][\A id \in Ids :
          (~ \E r \in receipts : r.id = id)
          => /\ ShowCmd(id)
                => /\ last' = Out("show", 1, "Not found", id, "", None)
                   /\ UNCHANGED <<receipts, files>>
             /\ \A u \in UpdateFields :
                   (HasValidField(u) /\ UpdateCmd(id, u))
                   => /\ last' = Out("update", 1, "Not found", id, "", None)
                      /\ UNCHANGED <<receipts, files>>
             /\ \A yes \in BOOLEAN, delete_image \in BOOLEAN :
                   DeleteCmd(id, yes, delete_image)
                   => /\ last' = Out("delete", 1, "Not found", id, "", None)
                      /\ UNCHANGED <<receipts, files>>]_vars

\* delete of an unknown id was refused while other rows and files are stored
C9_NotFoundReached ==
    /\ last = Out("delete", 1, "Not found", last.id, "", None)
    /\ receipts # {}
    /\ files # {}
    /\ ~ \E r \in receipts : r.id = last.id

\* the rows dated in a month: their date is the key, a dash and a day
DatedIn(rows, month) ==
    {r \in rows : r.receipt_date # None /\ Val(r.receipt_date) \in LikePattern[month]}

RECURSIVE SumCounts(_)
SumCounts(q) == IF q = << >> THEN 0 ELSE Head(q).count + SumCounts(Tail(q))

\* the by-category entries a finished summary printed (none when it refused)
ByCategoryOf(out) == IF out.row = None THEN << >> ELSE Val(out.row).by_category

\* q has exactly one entry for each category of the rows sel, with their count
\* and the sum of their totals (rounded to two decimals or exact), in
\* descending order of total
EntriesFor(q, sel, rounded) ==
    /\ \A c \in {r.category : r \in sel} : Cardinality({i \in DOMAIN q : q[i].key = c}) = 1
    /\ \A i \in DOMAIN q :
          LET g == {r \in sel : r.category = q[i].key}
          IN  /\ g # {}
              /\ q[i].count = Cardinality(g)
              /\ q[i].total = IF rounded THEN Round2(SumTotal(g)) ELSE SumTotal(g)
    /\ \A i, j \in DOMAIN q : i < j => q[i].total >= q[j].total
    /\ SumCounts(q) = Cardinality(sel)

\* C11: for every store state and year-month key, summary returns exactly one
\* by-category entry for each category among the rows dated in that month,
\* with count the number of those rows and total the sum of their totals (an
\* absent total counting as 0), in descending order of total; the counts sum
\* to the number of rows dated in the month, and no row changes.
C11_SummaryByCategory ==
    [][last'.cmd = "summary" =>
       \A month \in Months \ {None}, vendor_limit \in VendorLimits, today \in TodayMonths :
          SummaryCmd(month, vendor_limit, today)
          => /\ receipts' = receipts
             /\ EntriesFor(ByCategoryOf(last'), DatedIn(receipts, Val(month)), FALSE)]_vars

\* C11 (as the code has it): for a key of the form 20dd-dd the entries are as
\* above with each total the sum rounded to two decimals; any other key is
\* refused with exit code 2 and no entry; with no key given the month of the
\* local date is taken; no row changes.
C11_SummaryRoundedByCategory ==
    [][last'.cmd = "summary" =>
       \A month \in Months, vendor_limit \in VendorLimits, today \in TodayMonths :
          SummaryCmd(month, vendor_limit, today)
          => LET key == IF Truthy(month) THEN Val(month) ELSE today
             IN  /\ receipts' = receipts
                 /\ IF key \in MonthOk
                    THEN /\ last'.code = 0
                         /\ last'.row # None
                         /\ EntriesFor(ByCategoryOf(last'), DatedIn(receipts, key), TRUE)
                    ELSE /\ last'.code = 2
                         /\ last'.row = None]_vars

\* a summary printed two categories, one of them with a total that is not the
\* exact sum of its rows' totals
C11_RoundedEntryReached ==
    /\ last.cmd = "summary"
    /\ last.code = 0
    /\ Len(ByCategoryOf(last)) = 2
    /\ \E i \in DOMAIN ByCategoryOf(last) :
          LET e == ByCategoryOf(last)[i]
              g == {r \in DatedIn(receipts, last.status) : r.category = e.key}
          IN  e.count = Cardinality(g) /\ e.total # SumTotal(g)

\* row new is row old with the fields update was given (--date is column
\* receipt_date, --text column ocr_text, --items-json column items_json) set
\* to what was given, a currency code in upper case and an empty one as
\* absent, and every other column as it was
UpdatedRow(old, new, u) ==
    /\ new.id = old.id
    /\ new.created_at = old.created_at
    /\ new.image_path = old.image_path
    /\ new.image_sha256 = old.image_sha256
    /\ new.meta_json = old.meta_json
    /\ new.vendor = IF u.vendor # None THEN u.vendor ELSE old.vendor
    /\ new.receipt_date = IF u.date # None THEN u.date ELSE old.receipt_date
    /\ new.total = IF u.total # None THEN u.total ELSE old.total
    /\ new.currency = IF u.currency = None THEN old.currency
                      ELSE IF Val(u.currency) = "" THEN None
                      ELSE Some(Upper(Val(u.currency)))
    /\ new.category = IF u.category # None THEN u.category ELSE old.category
    /\ new.ocr_text = IF u.text # None THEN u.text ELSE old.ocr_text
    /\ new.items_json = IF u.items_json # None THEN u.items_json ELSE old.items_json

\* C12: an update that succeeds (exit code 0) changes, in the row of its id,
\* the fields it was given and nothing else: the row's id, creation
\* timestamp, image path and content hash and the fields not given stay,
\* every other row stays, and no row is created or removed.
C12_UpdateFrame ==
    [][last'.cmd = "update" =>
       \A id \in Ids, u \in UpdateFields :
          (UpdateCmd(id, u) /\ last'.code = 0)
          => /\ Cardinality(receipts') = Cardinality(receipts)
             /\ \A r \in receipts : r.id # id => r \in receipts'
             /\ \A r \in receipts' : r.id # id => r \in receipts
             /\ \E old \in receipts, new \in receipts' :
                   /\ old.id = id
                   /\ new.id = id
                   /\ UpdatedRow(old, new, u)
             /\ UNCHANGED <<files, seq>>]_vars

\* an update of several fields succeeded on one of two rows: the row has the
\* new vendor, date and text and its total is still the one it was added with
C12_UpdatedAmongTwoReached ==
    /\ last.cmd = "update"
    /\ last.code = 0
    /\ Cardinality(receipts) = 2
    /\ \E r \in receipts :
          /\ r.id = last.id
          /\ r.vendor = Some("Walmart")
          /\ r.receipt_date = Some("garbage")
          /\ r.ocr_text = Some(TextB)
          /\ r.total = Some(Cents(247))
    /\ \E r \in receipts : r.id # last.id /\ r.vendor # Some("Walmart")

\* C13: when the commands run one after the other, in every reachable state
\* the image path of every row names a file that is in image storage (also
\* after adds of the same content under another extension and after deletes
\* with --delete-image).
C13_ImageFileExists == \A r \in receipts : r.image_path \in files

\* a delete with --delete-image removed the file of the row it deleted, while
\* the remaining row's content is stored under two extensions
C13_DeletedImageAndTwoExtensionsReached ==
    /\ inflight = EmptyBag
    /\ last.cmd = "delete"
    /\ last.code = 0
    /\ \E r \in receipts : r.image_sha256 = "h1" /\ r.image_path = IMG_DIR \o "h1.jpg"
    /\ {IMG_DIR \o "h1.jpg", IMG_DIR \o "h1.png"} \subseteq files
    /\ (IMG_DIR \o "h2.jpg") \notin files

-----------------------------------------------------------------------------
(* Properties of normalize_date *)

FamilyHits(fam, toks) == {i \in 1..Len(toks) : toks[i].k = fam}

Least(S) == CHOOSE i \in S : \A j \in S : i <= j

\* year, month, day as a token spells them
TokenYMD(t) == IF t.k = "ymd" THEN t.n ELSE <<t.n[3], t.n[1], t.n[2]>>

TokenValid(t) == ValidDate(TokenYMD(t)[1], TokenYMD(t)[2], TokenYMD(t)[3])

TokenIso(t) == Some(isoformat(TokenYMD(t)[1], TokenYMD(t)[2], TokenYMD(t)[3]))

ValidHits(fam, toks) == {i \in FamilyHits(fam, toks) : TokenValid(toks[i])}

\* C10: normalize_date returns the first valid calendar date among the
\* matches of the YYYY-MM-DD family when there is one, otherwise the first
\* valid date among the matches of the MM-DD-YYYY family, and no date only
\* when neither family has a valid match.
C10_FirstValidMatch ==
    LET toks == Tokens(txt)
    IN  date_out.done
        => date_out.value =
              IF ValidHits("ymd", toks) # {} THEN TokenIso(toks[Least(ValidHits("ymd", toks))])
              ELSE IF ValidHits("mdy", toks) # {} THEN TokenIso(toks[Least(ValidHits("mdy", toks))])
              ELSE None

\* C10, amended: normalize_date looks at the leftmost match of each family
\* only.  It returns the leftmost YYYY-MM-DD match when that is a valid
\* calendar date; otherwise the leftmost MM-DD-YYYY match when that is a valid
\* calendar date; otherwise no date.
C10_FirstMatchPerFamily ==
    LET toks == Tokens(txt)
        y == FamilyHits("ymd", toks)
        m == FamilyHits("mdy", toks)
    IN  date_out.done
        => date_out.value =
              IF y # {} /\ TokenValid(toks[Least(y)]) THEN TokenIso(toks[Least(y)])
              ELSE IF m # {} /\ TokenValid(toks[Least(m)]) THEN TokenIso(toks[Least(m)])
              ELSE None

\* the leftmost YYYY-MM-DD match is invalid, a later one is valid, and the
\* date returned is that of the leftmost MM-DD-YYYY match
C10_InvalidFirstMatchReached ==
    LET toks == Tokens(txt)
        y == FamilyHits("ymd", toks)
        m == FamilyHits("mdy", toks)
    IN  /\ date_out.done
        /\ y # {} /\ ~TokenValid(toks[Least(y)])
        /\ ValidHits("ymd", toks) # {}
        /\ m # {} /\ TokenValid(toks[Least(m)])
        /\ date_out.value = TokenIso(toks[Least(m)])

====
